---- MODULE Spec2Model ----
(***************************************************************************)
(* Model of bin/ripe_loader.py: the routeview() parser/origin resolver and *)
(* RipeLoader.load_all(), the loader of RIPE bview dumps into the storage  *)
(* database.                                                               *)
(*                                                                         *)
(* Text is modelled as a sequence of one-character strings, so that the    *)
(* string operations of the source (split, isnumeric, the slice [1:-1])    *)
(* are computed character by character.  An ISO date is modelled by a      *)
(* natural number whose order is the lexicographic order of the dates.     *)
(***************************************************************************)
EXTENDS Integers, Sequences, FiniteSets, TLC

(***************************************************************************)
(* Bounds of the model.                                                    *)
(***************************************************************************)
\* number of table-dump records read from one dump by the routeview loop
MaxEntries == 2

\* number of bview files (one per date) the collector's directory can hold
NumFiles == 2

(***************************************************************************)
(* Text helpers (str.isnumeric, the slice asn[1:-1], str.split).           *)
(***************************************************************************)
Digits == {"0", "1", "2", "3", "4", "5", "6", "7", "8", "9"}

Whitespace == {" "}

\* a digit test that also lets the separator of an AS-SET pass
IsNumericOrComma(s) == Len(s) > 0 /\ \A i \in 1..Len(s) : s[i] \in Digits \cup {","}

\* str.isnumeric(): a non-empty text of numeric characters only.  The
\* AS-path texts produced by libbgpdump are ASCII, where the numeric
\* characters are exactly the decimal digits.
isnumeric(s) == Len(s) > 0 /\ \A i \in 1..Len(s) : s[i] \in Digits

\* asn[1:-1]: the text without its first and its last character (empty for
\* texts of fewer than three characters).
slice_1_m1(s) == SubSeq(s, 2, Len(s) - 1)

RECURSIVE split_from(_, _, _, _)
split_from(s, i, cur, acc) ==
    IF i > Len(s)
    THEN IF cur = <<>> THEN acc ELSE Append(acc, cur)
    ELSE IF s[i] \in Whitespace
         THEN split_from(s, i + 1, <<>>, IF cur = <<>> THEN acc ELSE Append(acc, cur))
         ELSE split_from(s, i + 1, Append(cur, s[i]), acc)

\* str.split() without arguments: the maximal runs of non-whitespace.
split(s) == split_from(s, 1, <<>>, <<>>)

(***************************************************************************)
(* Prefixes.  A prefix text "<address>/<length>" is modelled by its parsed *)
(* parts: the IP version, the address as an offset inside a fixed block    *)
(* (10.0.0.0/16 for v4, 2001:db8::/112 for v6) and the prefix length.      *)
(***************************************************************************)
Families == {"v4", "v6"}

max_prefixlen(ver) == IF ver = "v4" THEN 32 ELSE 128

Pfx(ver, addr, len) == [ver |-> ver, addr |-> addr, len |-> len]

\* network.num_addresses
num_addresses(p) == 2 ^ (max_prefixlen(p.ver) - p.len)

\* ip_network(prefix) is strict: it raises ValueError when host bits are set.
has_host_bits(p) == p.addr % num_addresses(p) # 0

\* str(ip_network(prefix)): the canonical text of the network.
str_network(p) == Pfx(p.ver, p.addr - (p.addr % num_addresses(p)), p.len)

(***************************************************************************)
(* routeview(): the loop over the records of one dump.                     *)
(***************************************************************************)
\* best_as before its first assignment (an unbound local variable)
Unbound == <<>>

\* the result of the scan when no token qualifies
NoMatch == <<>>

\* all_paths[-1]
last_path(all_paths) == all_paths[Len(all_paths)]

\* a scan from the near end of the path
RECURSIVE scan_forward(_, _)
scan_forward(tokens, i) ==
    IF i > Len(tokens) THEN NoMatch
    ELSE IF isnumeric(tokens[i]) THEN tokens[i]
    ELSE IF isnumeric(slice_1_m1(tokens[i])) THEN slice_1_m1(tokens[i])
    ELSE scan_forward(tokens, i + 1)

ScanLeftToRight(tokens) == scan_forward(tokens, 1)

RECURSIVE scan_reversed_from(_, _)
scan_reversed_from(tokens, i) ==
    IF i = 0 THEN NoMatch
    ELSE IF isnumeric(tokens[i]) THEN tokens[i]
    ELSE IF isnumeric(slice_1_m1(tokens[i])) THEN slice_1_m1(tokens[i])
    ELSE scan_reversed_from(tokens, i - 1)

\* for asn in reversed(path): the value assigned to best_as before the break,
\* NoMatch when the loop ends without an assignment
scan_reversed(tokens) == scan_reversed_from(tokens, Len(tokens))

\* the key of `routes` a record is appended to
family_of(e) == IF e.afi = "AF_INET" THEN "v4" ELSE "v6"

\* state of a routeview call: pc is "loop" while records are read, "raised"
\* once an exception left the function
rv_start == [pc |-> "loop", best_as |-> Unbound, routes |-> [f \in Families |-> <<>>]]

\* one iteration of `for entry in bgp`
rv_entry(st, e) ==
    IF ~e.v2 THEN st                                      \* not a TableDumpV2: continue
    ELSE IF e.routeEntries = <<>>
         THEN [st EXCEPT !.pc = "raised"]                 \* all_paths[-1]: IndexError
    ELSE LET all_paths == [i \in 1..Len(e.routeEntries) |-> split(e.routeEntries[i])]
             found == scan_reversed(last_path(all_paths))
             best_as == IF found = NoMatch THEN st.best_as ELSE found
         IN IF best_as = Unbound
            THEN [st EXCEPT !.pc = "raised"]              \* UnboundLocalError
            ELSE [st EXCEPT !.best_as = best_as,
                            !.routes[family_of(e)] = Append(@, <<e.prefix, best_as>>)]

RECURSIVE rv_run(_, _, _)
rv_run(st, entries, i) ==
    IF st.pc = "raised" \/ i > Len(entries) THEN st
    ELSE rv_run(rv_entry(st, entries[i]), entries, i + 1)

\* routeview(bview_file): the state in which the call ends.  BGPDump fails on
\* a dump it cannot decode; otherwise the loop runs over the records and the
\* function returns `routes`.
routeview(bview) ==
    IF ~bview.decodable THEN [rv_start EXCEPT !.pc = "raised"]
    ELSE LET st == rv_run(rv_start, bview.entries, 1)
         IN IF st.pc = "raised" THEN st ELSE [st EXCEPT !.pc = "returned"]

(***************************************************************************)
(* Inputs: tokens, AS-path texts and table-dump records.                   *)
(***************************************************************************)
Chars5(a, b, c, d, e) == <<a, b, c, d, e>>

T64511 == Chars5("6", "4", "5", "1", "1")
T64512 == Chars5("6", "4", "5", "1", "2")
T64513 == Chars5("6", "4", "5", "1", "3")
T64514 == Chars5("6", "4", "5", "1", "4")
T65000 == Chars5("6", "5", "0", "0", "0")
T65001 == Chars5("6", "5", "0", "0", "1")

Braces(s) == <<"{">> \o s \o <<"}">>

\* "{64513}", "{64513,64514}", "{bogus}"
TSetOne == Braces(T64513)
TSetTwo == Braces(T64513 \o <<",">> \o T64514)
TBogus == Braces(Chars5("b", "o", "g", "u", "s"))

Join(a, b) == a \o <<" ">> \o b

\* the AS-path texts of the specification's examples
PathPlain == Join(Join(T64511, T64512), T64513)
PathAsSet == Join(Join(T64511, T64512), TSetTwo)
PathBogus == Join(T64511, TBogus)

TokensRV == {T64511, T64512, TSetOne, TSetTwo, TBogus}

AsPathsRV ==
    {<<>>} \cup TokensRV \cup {Join(a, b) : a, b \in TokensRV}
    \cup {PathPlain, PathAsSet, T64511 \o <<" ", " ">> \o T64512 \o <<" ">>}

\* the routes of one record: none, one, or two with a fixed first AS-path
RouteListsRV ==
    {<<>>} \cup {<<p>> : p \in AsPathsRV} \cup {<<T64513, p>> : p \in AsPathsRV}

Net4a == Pfx("v4", 0, 24)      \* 10.0.0.0/24
Net4b == Pfx("v4", 256, 24)    \* 10.0.1.0/24
Bad4 == Pfx("v4", 1, 24)       \* 10.0.0.1/24: host bits set
Net6a == Pfx("v6", 0, 120)     \* 2001:db8::/120
Bad6 == Pfx("v6", 1, 120)      \* 2001:db8::1/120: host bits set

Rec(prefix, routeEntries) ==
    [v2 |-> TRUE, afi |-> IF prefix.ver = "v4" THEN "AF_INET" ELSE "AF_INET6",
     prefix |-> prefix, routeEntries |-> routeEntries]

\* a TableDumpV1 record
RecV1(prefix) == [Rec(prefix, <<T64511>>) EXCEPT !.v2 = FALSE]

EntriesRV ==
    {Rec(p, r) : p \in {Net4a, Net6a}, r \in RouteListsRV}
    \cup {RecV1(Net4a), RecV1(Net6a)}

NoEntry == RecV1(Bad4)

(***************************************************************************)
(* The dumps on disk.  Path p holds the dump of date date_of(p).           *)
(***************************************************************************)
Paths == 1..NumFiles

\* re.findall + strptime + isoformat: the ISO date of a path.  Both the paths
\* and the ISO dates are ordered like the timestamps in the file names.
date_of(path) == path

Dates == {date_of(p) : p \in Paths}

\* the files sit in one directory per month under storage_root (the glob is
\* recursive); a month holds the dumps of two consecutive dates
path_dir(path) == date_of(path) \div 2

\* the order of pathlib paths: by directory, then by file name
path_le(p, q) ==
    \/ path_dir(p) < path_dir(q)
    \/ path_dir(p) = path_dir(q) /\ p <= q

Dump(entries) == [decodable |-> TRUE, entries |-> entries]

\* 10.0.0.0/24 and 10.0.1.0/24 of AS65000, 10.0.0.0/24 a second time, and
\* 10.0.0.0/24 of AS65001 as well; one v6 network
BviewDup ==
    Dump(<<Rec(Net4a, <<Join(T64511, T65000)>>), Rec(Net4b, <<T65000>>),
           Rec(Net4a, <<T65000>>), Rec(Net4a, <<T64512, Join(T64511, T65001)>>),
           Rec(Net6a, <<T65000>>)>>)

\* a v6 prefix with host bits set
BviewBadV6 == Dump(<<Rec(Net4a, <<T65000>>), Rec(Bad6, <<T65000>>)>>)

\* no v6 record at all
BviewNoV6 == Dump(<<RecV1(Net6a), Rec(Net4b, <<Braces(T65000)>>)>>)

\* a truncated dump
BviewCorrupt == [decodable |-> FALSE, entries |-> <<>>]

BviewNames == {"dup", "badv6", "nov6", "corrupt"}

Bview(name) ==
    CASE name = "dup" -> BviewDup
      [] name = "badv6" -> BviewBadV6
      [] name = "nov6" -> BviewNoV6
      [] OTHER -> BviewCorrupt

\* the ASNs that occur in the dumps
ASNs == {T65000, T65001}

\* routeview(path) for a path that holds the named dump
routeview_of == [name \in BviewNames |-> routeview(Bview(name))]

(***************************************************************************)
(* The storage database (the keys under key_prefix).                       *)
(***************************************************************************)
\* a key that is not set (redis nil / Python None)
None == 0

EmptyDb ==
    [dates |-> [f \in Families |-> {}],
     asns |-> [k \in Families \X Dates |-> {}],
     prefixes |-> [k \in Families \X Dates \X ASNs |-> {}],
     ipcount |-> [k \in Families \X Dates \X ASNs |-> None],
     last |-> [f \in Families |-> None]]

AlreadyLoadedEither(db, date) == date \in db.dates["v4"] \/ date \in db.dates["v6"]

already_loaded(db, date) == date \in db.dates["v4"] /\ date \in db.dates["v6"]

UpdateLastAlways(db, address_family, date) == [db EXCEPT !.last[address_family] = date]

update_last(db, address_family, date) ==
    LET cur_last == db.last[address_family]
    IN IF cur_last = None \/ date > cur_last
       THEN [db EXCEPT !.last[address_family] = date]
       ELSE db

TooOldInclusive(oldest_to_load, date) == oldest_to_load # None /\ oldest_to_load >= date

\* `oldest_to_load and oldest_to_load > date`
too_old(oldest_to_load, date) == oldest_to_load # None /\ oldest_to_load > date

(***************************************************************************)
(* The aggregation of one family's entries (the defaultdict to_import).    *)
(***************************************************************************)
NewAggregate == [nets |-> {}, ipcount |-> 0]

\* an aggregation that counts a network once for the whole family
AddEntryGlobalDedup(imp, prefix, asn) ==
    IF \E a \in DOMAIN imp : str_network(prefix) \in imp[a].nets
    THEN imp
    ELSE LET old == IF asn \in DOMAIN imp THEN imp[asn] ELSE NewAggregate
             new == [nets |-> old.nets \cup {str_network(prefix)},
                     ipcount |-> old.ipcount + num_addresses(prefix)]
         IN [a \in DOMAIN imp \cup {asn} |-> IF a = asn THEN new ELSE imp[a]]

\* to_import[asn][address_family].add(str(network));
\* to_import[asn]['ipcount'] += network.num_addresses
add_entry(imp, prefix, asn) ==
    LET old == IF asn \in DOMAIN imp THEN imp[asn] ELSE NewAggregate
        new == [nets |-> old.nets \cup {str_network(prefix)},
                ipcount |-> old.ipcount + num_addresses(prefix)]
    IN [a \in DOMAIN imp \cup {asn} |-> IF a = asn THEN new ELSE imp[a]]

RECURSIVE to_import_from(_, _, _)
to_import_from(imp, entries, i) ==
    IF i > Len(entries) THEN imp
    ELSE to_import_from(add_entry(imp, entries[i][1], entries[i][2]), entries, i + 1)

\* the mapping built by `for prefix, asn in entries`
to_import(entries) == to_import_from(<<>>, entries, 1)

\* ip_network raises ValueError on some entry
aggregate_raises(entries) == \E i \in 1..Len(entries) : has_host_bits(entries[i][1])

\* sadd without members is refused by the server, which makes EXEC discard the
\* whole transaction: execute() raises ResponseError
execute_raises(imp) == DOMAIN imp = {}

\* a pipeline that adds the ipcount to the stored one instead of setting it
CommitIncr(db, address_family, date, imp) ==
    [db EXCEPT
        !.dates[address_family] = @ \cup {date},
        !.asns[<<address_family, date>>] = @ \cup DOMAIN imp,
        !.prefixes = [k \in DOMAIN @ |->
            IF k[1] = address_family /\ k[2] = date /\ k[3] \in DOMAIN imp
            THEN @[k] \cup imp[k[3]].nets ELSE @[k]],
        !.ipcount = [k \in DOMAIN @ |->
            IF k[1] = address_family /\ k[2] = date /\ k[3] \in DOMAIN imp
            THEN @[k] + imp[k[3]].ipcount ELSE @[k]]]

\* what a reader sees when the sadd of the date is sent on its own, ahead of
\* the commands that write the aggregate
CommitDatesFirst(db, address_family, date, imp) ==
    [db EXCEPT !.dates[address_family] = @ \cup {date}]

\* p.execute(): the queued sadd and set commands applied in one transaction
commit(db, address_family, date, imp) ==
    [db EXCEPT
        !.dates[address_family] = @ \cup {date},
        !.asns[<<address_family, date>>] = @ \cup DOMAIN imp,
        !.prefixes = [k \in DOMAIN @ |->
            IF k[1] = address_family /\ k[2] = date /\ k[3] \in DOMAIN imp
            THEN @[k] \cup imp[k[3]].nets ELSE @[k]],
        !.ipcount = [k \in DOMAIN @ |->
            IF k[1] = address_family /\ k[2] = date /\ k[3] \in DOMAIN imp
            THEN imp[k[3]].ipcount ELSE @[k]]]

\* the order of routes.items()
FamilyOrder == <<"v4", "v6">>

\* the body of `for address_family, entries in routes.items()` for the
\* families fams[i..], as far as it gets: the store and whether it raised
RECURSIVE load_families(_, _, _, _, _)
load_families(db, routes, date, fams, i) ==
    IF i > Len(fams) THEN [db |-> db, raised |-> FALSE]
    ELSE LET entries == routes[fams[i]]
             imp == to_import(entries)
         IN IF aggregate_raises(entries) \/ execute_raises(imp)
            THEN [db |-> db, raised |-> TRUE]
            ELSE load_families(
                     update_last(commit(db, fams[i], date, imp), fams[i], date),
                     routes, date, fams, i + 1)

\* the Load step of load_all for the file that holds the named dump, when no
\* storage call fails
load_file(db, name, date) ==
    LET r == routeview_of[name]
    IN IF r.pc = "raised" THEN [db |-> db, raised |-> TRUE]
       ELSE load_families(db, r.routes, date, FamilyOrder, 1)

RECURSIVE run_pass(_, _, _, _, _, _)
\* load_all over the sorted paths[i..] of the files dsk when the cache holds
\* the value first and no storage call fails: the store it leaves, the paths
\* it has called routeview with, and whether an exception left it
run_pass(db, dsk, paths, i, first, done) ==
    IF i > Len(paths) THEN [db |-> db, parsed |-> done, raised |-> FALSE]
    ELSE LET d == date_of(paths[i])
         IN IF too_old(first, d) \/ already_loaded(db, d)
            THEN run_pass(db, dsk, paths, i + 1, first, done)
            ELSE LET r == load_file(db, dsk[paths[i]], d)
                 IN IF r.raised
                    THEN [db |-> r.db, parsed |-> Append(done, paths[i]),
                          raised |-> TRUE]
                    ELSE run_pass(r.db, dsk, paths, i + 1, first,
                                  Append(done, paths[i]))

RECURSIVE SortedAscending(_)
\* sorted(paths) without reverse=True
SortedAscending(S) ==
    IF S = {} THEN <<>>
    ELSE LET m == CHOOSE x \in S : \A y \in S : path_le(x, y)
         IN <<m>> \o SortedAscending(S \ {m})

RECURSIVE sorted_reverse(_)
\* sorted(paths, reverse=True)
sorted_reverse(S) ==
    IF S = {} THEN <<>>
    ELSE LET m == CHOOSE x \in S : \A y \in S : path_le(y, x)
         IN <<m>> \o sorted_reverse(S \ {m})

(***************************************************************************)
(* State.                                                                  *)
(***************************************************************************)
VARIABLES
    rv,          \* a routeview call read record by record: pc, best_as, routes
    entry,       \* the loop variable of that call: the record read last
    nread,       \* number of records that call has read
    storagedb,   \* the keys of the storage database
    oldest_to_load, \* load_all: META:expected_interval / first as read from the
                 \* cache for the candidate at hand
    disk,        \* the dump stored at each path ("absent" when there is none)
    pc,          \* load_all: "idle" between passes; "iter", "decide", "family"
                 \* and "update_last" during one; "returned" or "raised" at its end
    pass_paths,  \* the sorted list the running pass iterates over
    idx,         \* index in pass_paths of the candidate at hand
    routes,      \* load_all: the routes returned by routeview for the candidate
    fam_todo,    \* the families of `routes` still to process
    parsed,      \* the paths routeview was called with during the pass
    skipped,     \* the paths skipped during the pass as older than oldest_to_load
    failure,     \* the exception that ended the pass ("none" when none did)
    db_before,   \* the storage database when the Load step at hand began
    commits      \* the (family, date) pairs execute() has committed

rvvars == <<rv, entry, nread>>

loadvars ==
    <<storagedb, oldest_to_load, disk, pc, pass_paths, idx, routes, fam_todo,
      parsed, skipped, failure, db_before, commits>>

vars ==
    <<rv, entry, nread, storagedb, oldest_to_load, disk, pc, pass_paths, idx,
      routes, fam_todo, parsed, skipped, failure, db_before, commits>>

NoRoutes == [f \in Families |-> <<>>]

InitLoader ==
    /\ storagedb = EmptyDb
    /\ oldest_to_load = None
    /\ disk = [p \in Paths |-> "absent"]
    /\ pc = "idle"
    /\ pass_paths = <<>>
    /\ idx = 1
    /\ routes = NoRoutes
    /\ fam_todo = <<>>
    /\ parsed = <<>>
    /\ skipped = <<>>
    /\ failure = "none"
    /\ db_before = EmptyDb
    /\ commits = {}

(***************************************************************************)
(* Specification of one routeview call, read record by record.             *)
(***************************************************************************)
InitRV ==
    /\ rv = rv_start
    /\ entry = NoEntry
    /\ nread = 0
    /\ InitLoader

\* one iteration of `for entry in bgp` on the record e
RvRead(e) ==
    /\ rv.pc = "loop"
    /\ nread < MaxEntries
    /\ entry' = e
    /\ rv' = rv_entry(rv, e)
    /\ nread' = nread + 1
    /\ UNCHANGED loadvars

\* the dump is exhausted: return routes
RvReturn ==
    /\ rv.pc = "loop"
    /\ rv' = [rv EXCEPT !.pc = "returned"]
    /\ UNCHANGED <<entry, nread>>
    /\ UNCHANGED loadvars

NextRV ==
    \/ \E e \in EntriesRV : RvRead(e)
    \/ RvReturn

SpecRV == InitRV /\ [][NextRV]_vars

(***************************************************************************)
(* Specification of the loader: passes of load_all, the fetcher that puts  *)
(* dumps on disk and the cache that holds the oldest date of interest.     *)
(***************************************************************************)
Init ==
    /\ rv = rv_start
    /\ entry = NoEntry
    /\ nread = 0
    /\ InitLoader

path == pass_paths[idx]

date == date_of(path)

AtCandidate == pc = "iter" /\ idx <= Len(pass_paths)

\* the locals of load_all after an exception left it or it returned
LocalsGone ==
    /\ pass_paths' = <<>>
    /\ idx' = 1
    /\ routes' = NoRoutes
    /\ fam_todo' = <<>>
    /\ parsed' = <<>>
    /\ skipped' = <<>>
    /\ oldest_to_load' = None
    /\ db_before' = EmptyDb

\* an exception of the given kind leaves load_all
Leave(kind) ==
    /\ pc' = "raised"
    /\ failure' = kind
    /\ UNCHANGED <<rv, entry, nread, storagedb, oldest_to_load, disk, pass_paths,
                   idx, routes, fam_todo, parsed, skipped, db_before, commits>>

\* the pass is over and its locals are gone; the manager sleeps until the
\* next call of load_all
Sleep ==
    /\ pc \in {"returned", "raised"}
    /\ pc' = "idle"
    /\ failure' = "none"
    /\ LocalsGone
    /\ UNCHANGED <<rv, entry, nread, storagedb, disk, commits>>

\* a dump of a new date arrives on disk (load_all lists the directory when a
\* pass starts, so the arrival is placed between two passes)
Fetch(p, b) ==
    /\ pc = "idle"
    /\ disk[p] = "absent"
    /\ disk' = [disk EXCEPT ![p] = b]
    /\ UNCHANGED <<rv, entry, nread, storagedb, oldest_to_load, pc, pass_paths,
                   idx, routes, fam_todo, parsed, skipped, failure, db_before, commits>>

\* exactly one family of the date is committed
partly_loaded(db, d) ==
    \E f, g \in Families : d \in db.dates[f] /\ d \notin db.dates[g]

\* between two passes, the dump of a partly loaded date is replaced (the
\* replacement of a dump none of whose families is committed leads to the
\* states its arrival with the new content leads to)
Refetch(p, b) ==
    /\ pc = "idle"
    /\ disk[p] \notin {"absent", b}
    /\ partly_loaded(storagedb, date_of(p))
    /\ disk' = [disk EXCEPT ![p] = b]
    /\ UNCHANGED <<rv, entry, nread, storagedb, oldest_to_load, pc, pass_paths,
                   idx, routes, fam_todo, parsed, skipped, failure, db_before, commits>>

\* load_all is called: sorted(glob('**/*.gz'), reverse=True)
StartPass ==
    /\ pc = "idle"
    /\ pass_paths' = sorted_reverse({p \in Paths : disk[p] # "absent"})
    /\ pc' = "iter"
    /\ UNCHANGED <<rv, entry, nread, storagedb, oldest_to_load, disk, idx, routes,
                   fam_todo, parsed, skipped, failure, db_before, commits>>

\* the for loop is exhausted: load_all returns
EndPass ==
    /\ pc = "iter"
    /\ idx > Len(pass_paths)
    /\ pc' = "returned"
    /\ UNCHANGED <<rv, entry, nread, storagedb, oldest_to_load, disk, pass_paths,
                   idx, routes, fam_todo, parsed, skipped, failure, db_before, commits>>

\* what the cache can hold: no oldest date of interest, or some date
CacheValues == {None} \cup Dates

\* oldest_to_load = self.cache.hget(...) for the next candidate returns v
ReadCache(v) ==
    /\ AtCandidate
    /\ oldest_to_load' = v
    /\ pc' = "decide"
    /\ UNCHANGED <<rv, entry, nread, storagedb, disk, pass_paths, idx, routes,
                   fam_todo, parsed, skipped, failure, db_before, commits>>

\* the candidate is older than the oldest date of interest: continue
SkipTooOld ==
    /\ pc = "decide"
    /\ too_old(oldest_to_load, date)
    /\ idx' = idx + 1
    /\ pc' = "iter"
    /\ oldest_to_load' = None
    /\ skipped' = Append(skipped, path)
    /\ UNCHANGED <<rv, entry, nread, storagedb, disk, pass_paths, routes,
                   fam_todo, parsed, failure, db_before, commits>>

\* the debug line of the loaded date is written but the `continue` is
\* missing: the file is parsed and loaded again
ReparseLoaded ==
    /\ pc = "decide"
    /\ ~too_old(oldest_to_load, date)
    /\ already_loaded(storagedb, date)
    /\ routeview_of[disk[path]].pc = "returned"
    /\ routes' = routeview_of[disk[path]].routes
    /\ fam_todo' = FamilyOrder
    /\ parsed' = Append(parsed, path)
    /\ pc' = "family"
    /\ oldest_to_load' = None
    /\ db_before' = storagedb
    /\ UNCHANGED <<rv, entry, nread, storagedb, disk, pass_paths, idx, skipped,
                   failure, commits>>

\* the loop is left at the first loaded date (`break` for `continue`)
SkipLoadedBreaks ==
    /\ pc = "decide"
    /\ ~too_old(oldest_to_load, date)
    /\ already_loaded(storagedb, date)
    /\ pc' = "returned"
    /\ oldest_to_load' = None
    /\ UNCHANGED <<rv, entry, nread, storagedb, disk, pass_paths, idx, routes,
                   fam_todo, parsed, skipped, failure, db_before, commits>>

\* the candidate's date is already loaded: continue
SkipLoaded ==
    /\ pc = "decide"
    /\ ~too_old(oldest_to_load, date)
    /\ already_loaded(storagedb, date)
    /\ idx' = idx + 1
    /\ pc' = "iter"
    /\ oldest_to_load' = None
    /\ UNCHANGED <<rv, entry, nread, storagedb, disk, pass_paths, routes,
                   fam_todo, parsed, skipped, failure, db_before, commits>>

\* a Load step that processes only the families the date is not loaded for
ParseMissingOnly ==
    /\ pc = "decide"
    /\ oldest_to_load' = None
    /\ ~too_old(oldest_to_load, date)
    /\ ~already_loaded(storagedb, date)
    /\ routeview_of[disk[path]].pc = "returned"
    /\ routes' = routeview_of[disk[path]].routes
    /\ fam_todo' = SelectSeq(FamilyOrder, LAMBDA f : date \notin storagedb.dates[f])
    /\ parsed' = Append(parsed, path)
    /\ pc' = "family"
    /\ db_before' = storagedb
    /\ UNCHANGED <<rv, entry, nread, storagedb, disk, pass_paths, idx, skipped,
                   failure, commits>>

\* routes = routeview(path) returns
Parse ==
    /\ pc = "decide"
    /\ oldest_to_load' = None
    /\ ~too_old(oldest_to_load, date)
    /\ ~already_loaded(storagedb, date)
    /\ routeview_of[disk[path]].pc = "returned"
    /\ routes' = routeview_of[disk[path]].routes
    /\ fam_todo' = FamilyOrder
    /\ parsed' = Append(parsed, path)
    /\ pc' = "family"
    /\ db_before' = storagedb
    /\ UNCHANGED <<rv, entry, nread, storagedb, disk, pass_paths, idx, skipped,
                   failure, commits>>

\* routeview(path) raises
ParseRaises ==
    /\ pc = "decide"
    /\ ~too_old(oldest_to_load, date)
    /\ ~already_loaded(storagedb, date)
    /\ routeview_of[disk[path]].pc = "raised"
    /\ pc' = "raised"
    /\ failure' = "decode"
    /\ oldest_to_load' = None
    /\ parsed' = Append(parsed, path)
    /\ db_before' = storagedb
    /\ UNCHANGED <<rv, entry, nread, storagedb, disk, pass_paths, idx, routes,
                   fam_todo, skipped, commits>>

address_family == Head(fam_todo)

\* update_last called at the top of the family's iteration, ahead of the
\* aggregation that raises
AggregateRaisesAfterUpdate ==
    /\ pc = "family"
    /\ aggregate_raises(routes[address_family])
    /\ storagedb' = update_last(storagedb, address_family, date)
    /\ pc' = "raised"
    /\ failure' = "prefix"
    /\ UNCHANGED <<rv, entry, nread, oldest_to_load, disk, pass_paths, idx, routes,
                   fam_todo, parsed, skipped, db_before, commits>>

\* ip_network(prefix) raises while the family's entries are aggregated
AggregateRaises ==
    /\ pc = "family"
    /\ aggregate_raises(routes[address_family])
    /\ Leave("prefix")

\* a pipeline that is no transaction: the queued sadd of the date is applied
\* before the sadd without members fails
ExecuteRaisesPartial ==
    /\ pc = "family"
    /\ ~aggregate_raises(routes[address_family])
    /\ execute_raises(to_import(routes[address_family]))
    /\ storagedb' = [storagedb EXCEPT !.dates[address_family] = @ \cup {date}]
    /\ pc' = "raised"
    /\ failure' = "response"
    /\ UNCHANGED <<rv, entry, nread, oldest_to_load, disk, pass_paths, idx, routes,
                   fam_todo, parsed, skipped, db_before, commits>>

\* p.execute() raises because the family has no entry
ExecuteRaises ==
    /\ pc = "family"
    /\ ~aggregate_raises(routes[address_family])
    /\ execute_raises(to_import(routes[address_family]))
    /\ Leave("response")

\* the family's entries are aggregated and p.execute() commits them
Commit ==
    /\ pc = "family"
    /\ ~aggregate_raises(routes[address_family])
    /\ ~execute_raises(to_import(routes[address_family]))
    /\ storagedb' = commit(storagedb, address_family, date,
                           to_import(routes[address_family]))
    /\ commits' = commits \cup {<<address_family, date>>}
    /\ pc' = "update_last"
    /\ UNCHANGED <<rv, entry, nread, oldest_to_load, disk, pass_paths, idx, routes,
                   fam_todo, parsed, skipped, failure, db_before>>

\* self.update_last(address_family, date), then the next family or the next path
UpdateLast ==
    /\ pc = "update_last"
    /\ storagedb' = update_last(storagedb, address_family, date)
    /\ fam_todo' = Tail(fam_todo)
    /\ IF Tail(fam_todo) = <<>>
       THEN pc' = "iter" /\ idx' = idx + 1
       ELSE pc' = "family" /\ idx' = idx
    /\ UNCHANGED <<rv, entry, nread, oldest_to_load, disk, pass_paths, routes,
                   parsed, skipped, failure, db_before, commits>>

\* the cache or the storage database is unavailable for the next call: the
\* exception leaves load_all and the manager sleeps until the next pass
StorageError ==
    /\ \/ AtCandidate
       \/ pc = "decide" /\ ~too_old(oldest_to_load, date)
       \/ pc \in {"family", "update_last"}
    /\ pc' = "idle"
    /\ LocalsGone
    /\ UNCHANGED <<rv, entry, nread, storagedb, disk, failure, commits>>

Next ==
    \/ \E p \in Paths, b \in BviewNames : Fetch(p, b)
    \/ \E p \in Paths, b \in BviewNames : Refetch(p, b)
    \/ StartPass
    \/ EndPass
    \/ \E v \in CacheValues : ReadCache(v)
    \/ SkipTooOld
    \/ SkipLoaded
    \/ Parse
    \/ ParseRaises
    \/ AggregateRaises
    \/ ExecuteRaises
    \/ Commit
    \/ UpdateLast
    \/ StorageError
    \/ Sleep

Spec == Init /\ [][Next]_vars

(***************************************************************************)
(* Properties of the origin resolution (checked under SpecRV).             *)
(***************************************************************************)
\* the step that reads the record e
ReadsRecord(e) == rv.pc = "loop" /\ nread' = nread + 1 /\ entry' = e

AllDigits(t) == t # <<>> /\ {t[i] : i \in 1..Len(t)} \subseteq Digits

\* t without exactly its first and its last character
Stripped(t) == [i \in 1..(IF Len(t) >= 2 THEN Len(t) - 2 ELSE 0) |-> t[i + 1]]

Qualifies(t) == AllDigits(t) \/ AllDigits(Stripped(t))

\* the tokens of the last AS-path of a record with at least one route
LastPathTokens(e) == split(e.routeEntries[Len(e.routeEntries)])

HasRoutes(e) == e.v2 /\ e.routeEntries # <<>>

Resolvable(e) == \E i \in 1..Len(LastPathTokens(e)) : Qualifies(LastPathTokens(e)[i])

\* the rightmost qualifying token of the last AS-path, stripped if need be
ExpectedOrigin(e) ==
    LET toks == LastPathTokens(e)
        m == CHOOSE i \in 1..Len(toks) :
                 /\ Qualifies(toks[i])
                 /\ \A j \in (i + 1)..Len(toks) : ~Qualifies(toks[j])
    IN IF AllDigits(toks[m]) THEN toks[m] ELSE Stripped(toks[m])

\* the step appended (prefix of e, asn) to the list of e's family and nothing else
AppendsOrigin(e, asn) ==
    /\ rv'.pc = "loop"
    /\ rv'.routes[family_of(e)] = Append(rv.routes[family_of(e)], <<e.prefix, asn>>)
    /\ \A f \in Families \ {family_of(e)} : rv'.routes[f] = rv.routes[f]

\* C5: when no token of the last AS-path of a record qualifies, the record's
\* prefix is appended to neither family's list and the loop goes on with the
\* next record without raising.
C5_UnresolvedExcluded ==
    [][\A e \in EntriesRV :
          (ReadsRecord(e) /\ HasRoutes(e) /\ ~Resolvable(e))
              => (rv'.routes = rv.routes /\ rv'.pc = "loop")]_vars

\* C6 as stated: "64511 64512 {64513,64514}" resolves to the brace contents
\* "64513,64514", and "64511 {bogus}" is unresolved (nothing is appended).
C6_AsSetVerbatim ==
    [][\A e \in EntriesRV :
          (ReadsRecord(e) /\ HasRoutes(e))
              => /\ (e.routeEntries[Len(e.routeEntries)] = PathAsSet
                        => AppendsOrigin(e, T64513 \o <<",">> \o T64514))
                 /\ (e.routeEntries[Len(e.routeEntries)] = PathBogus
                        => rv'.routes = rv.routes)]_vars

\* C6 amended: the contents of a several-member AS-SET are not all digits, so
\* "64511 64512 {64513,64514}" resolves to the next token to the left, "64512";
\* "64511 {bogus}" resolves to "64511"; a one-member AS-SET "{64513}" at the
\* right end resolves to its contents "64513".
C6_AsSetSkipped ==
    [][\A e \in EntriesRV :
          (ReadsRecord(e) /\ HasRoutes(e))
              => /\ (e.routeEntries[Len(e.routeEntries)] = PathAsSet
                        => AppendsOrigin(e, T64512))
                 /\ (e.routeEntries[Len(e.routeEntries)] = PathBogus
                        => AppendsOrigin(e, T64511))
                 /\ (e.routeEntries[Len(e.routeEntries)] = Join(T64511, TSetOne)
                        => AppendsOrigin(e, T64513))]_vars

C6_Witness ==
    /\ nread = 2
    /\ entry = Rec(Net4a, <<PathAsSet>>)
    /\ rv.routes["v4"] = <<<<Net4a, T64511>>, <<Net4a, T64512>>>>

\* C9: for every record with at least one route whose last AS-path has a
\* qualifying token, the origin appended with the record's prefix is the first
\* token, scanning the last AS-path from right to left, that is all digits (as
\* is) or all digits without its first and last character (stripped); the
\* other AS-paths play no part; "64511 64512 64513" resolves to "64513".
C9_OriginResolution ==
    [][\A e \in EntriesRV :
          (ReadsRecord(e) /\ HasRoutes(e) /\ Resolvable(e))
              => /\ AppendsOrigin(e, ExpectedOrigin(e))
                 /\ (e.routeEntries[Len(e.routeEntries)] = PathPlain
                        => AppendsOrigin(e, T64513))]_vars

C9_Witness ==
    /\ nread = 2
    /\ entry = Rec(Net6a, <<T64513, Join(TSetOne, TBogus)>>)
    /\ rv.pc = "loop"
    /\ rv.routes = [f \in Families |->
                       IF f = "v4" THEN <<<<Net4a, T64513>>>> ELSE <<<<Net6a, T64513>>>>]

(***************************************************************************)
(* Properties of the loader (checked under Spec).                          *)
(***************************************************************************)
\* C1: for every date D, already_loaded(D) is true if and only if a commit
\* for D has occurred for both families v4 and v6; after a commit of only one
\* family, already_loaded(D) is false.
C1_CompletenessGate ==
    \A d \in Dates :
        already_loaded(storagedb, d) <=> (\A f \in Families : <<f, d>> \in commits)

C1_Witness ==
    \E d1, d2 \in Dates :
        /\ \A f \in Families : <<f, d1>> \in commits
        /\ already_loaded(storagedb, d1)
        /\ <<"v4", d2>> \in commits
        /\ <<"v6", d2>> \notin commits
        /\ ~already_loaded(storagedb, d2)

\* C2: for each family, the value of the `last` key never decreases in any
\* step, also when a date D2 < D1 is committed after D1 was committed.
C2_MonotonicPointer ==
    [][\A f \in Families : storagedb'.last[f] >= storagedb.last[f]]_vars

\* the older date p2 has just been committed and passed to update_last after
\* the newer p1 was, in the same pass
C2_Witness ==
    \E p1, p2 \in Paths :
        /\ date_of(p2) < date_of(p1)
        /\ parsed = <<p1, p2>>
        /\ pc = "family"
        /\ fam_todo = <<"v6">>
        /\ date_of(p2) \in storagedb.dates["v4"]
        /\ storagedb.last["v4"] = date_of(p1)

\* C3: running the Load step twice for the same dump and the same date leaves
\* the storage database (prefix sets, ipcounts, loaded dates, ASN sets and
\* last pointers) as running it once does, from every database a pass can
\* start with.
C3_Idempotence ==
    pc = "idle" =>
        \A d \in Dates, b \in BviewNames :
            LET once == load_file(storagedb, b, d).db
            IN load_file(once, b, d).db = once

\* the v4 family of a date is committed a second time with the same content
C3_Witness ==
    /\ pc = "update_last"
    /\ address_family = "v4"
    /\ date \in db_before.dates["v4"]
    /\ storagedb = db_before
    /\ storagedb = load_file(EmptyDb, disk[path], date).db

\* the entries of family f in `routes` that are attributed to asn
EntriesOf(f, asn) == {i \in 1..Len(routes[f]) : routes[f][i][2] = asn}

\* the distinct canonical networks attributed to asn in family f of `routes`
DistinctNets(f, asn) == {str_network(routes[f][i][1]) : i \in EntriesOf(f, asn)}

RECURSIVE SumAddrs(_)
SumAddrs(S) ==
    IF S = {} THEN 0
    ELSE LET n == CHOOSE n \in S : TRUE
         IN num_addresses(n) + SumAddrs(S \ {n})

\* C4: for every ASN of a family of a snapshot, the stored ipcount is the sum
\* of the address counts of the distinct canonical prefixes of the ASN; a
\* (prefix, ASN) pair that occurs more than once counts once.
C4_NoDoubleCount ==
    pc = "update_last" =>
        \A a \in ASNs :
            EntriesOf(address_family, a) # {} =>
                storagedb.ipcount[<<address_family, date, a>>]
                    = SumAddrs(DistinctNets(address_family, a))

\* C7: when the Load step of a candidate fails (decode failure in routeview or
\* an invalid prefix), the remaining candidates of the pass are still
\* processed - no exception ends the pass while candidates are left - and the
\* failed date stays not loaded.
C7_FailureIsolation ==
    (pc = "raised" /\ failure \in {"decode", "prefix"}) =>
        /\ idx >= Len(pass_paths)
        /\ ~already_loaded(storagedb, date)

\* C8: a candidate strictly older than the oldest date of interest held by
\* the cache is skipped without a call of the parser and without a write to
\* the store; a candidate whose date equals it, or any candidate when no such
\* value is set, is not skipped by this rule: unless its date is loaded
\* already, the parser is called for it (or the store is unavailable).
C8_RetentionSkip ==
    [][pc = "decide" =>
          /\ (oldest_to_load # None /\ oldest_to_load > date)
                => /\ pc' = "iter" /\ idx' = idx + 1
                   /\ parsed' = parsed
                   /\ storagedb' = storagedb
          /\ ((oldest_to_load = None \/ oldest_to_load <= date)
                 /\ ~already_loaded(storagedb, date))
                => /\ pc' # "iter"
                   /\ pc' = "idle" \/ parsed' = Append(parsed, path)]_vars

\* a pass ended in which the newer candidate was parsed and the older one,
\* none of whose families is loaded, was skipped
C8_Witness ==
    /\ pc = "returned"
    /\ Len(pass_paths) = 2
    /\ parsed = <<pass_paths[1]>>
    /\ ~AlreadyLoadedEither(storagedb, date_of(pass_paths[2]))
    /\ already_loaded(storagedb, date_of(pass_paths[1]))

\* C10: when the same prefix is attributed to two different ASNs in one
\* family of a snapshot, the stored prefix set of each of the two ASNs holds
\* the prefix and the stored ipcount of each covers the address counts of
\* the ASN's own distinct prefixes, whatever the other ASN holds.
C10_CrossAsCounting ==
    pc = "update_last" =>
        \A i, j \in 1..Len(routes[address_family]) :
            LET ei == routes[address_family][i]
                ej == routes[address_family][j]
            IN (ei[1] = ej[1] /\ ei[2] # ej[2]) =>
                   \A a \in {ei[2], ej[2]} :
                       /\ str_network(ei[1])
                              \in storagedb.prefixes[<<address_family, date, a>>]
                       /\ a \in storagedb.asns[<<address_family, date>>]
                       /\ storagedb.ipcount[<<address_family, date, a>>]
                              >= SumAddrs(DistinctNets(address_family, a))

C10_Witness ==
    /\ pc = "update_last"
    /\ address_family = "v4"
    /\ disk[path] = "dup"
    /\ Net4a \in storagedb.prefixes[<<"v4", date, T65000>>]
    /\ Net4a \in storagedb.prefixes[<<"v4", date, T65001>>]
    /\ storagedb.ipcount[<<"v4", date, T65001>>] = num_addresses(Net4a)

(***************************************************************************)
(* Properties of the commit and of the passes (checked under Spec).        *)
(***************************************************************************)
\* the keys the store holds for one family and one date, and the family's
\* last pointer
FamilyKeys(db, f, d) ==
    [loaded   |-> d \in db.dates[f],
     asns     |-> db.asns[<<f, d>>],
     prefixes |-> [a \in ASNs |-> db.prefixes[<<f, d, a>>]],
     ipcount  |-> [a \in ASNs |-> db.ipcount[<<f, d, a>>]],
     last     |-> db.last[f]]

\* C11: no partial aggregate is committed.  A step of a family's processing
\* that does not end in the execution of its pipeline writes nothing, and
\* when the processing of a family ends in an exception (an invalid prefix,
\* a refused pipeline) that family's keys of the date and its last pointer
\* are those the store held when the Load step of the file began
C11_NoPartialCommit ==
    [][pc = "family" =>
         /\ pc' # "update_last" => storagedb' = storagedb
         /\ pc' = "raised" =>
               FamilyKeys(storagedb', address_family, date)
                   = FamilyKeys(db_before, address_family, date)]_vars

\* the v6 entries of a file hold an invalid prefix and its processing failed
\* after the v4 aggregate of the same file was committed
C11_Witness ==
    /\ pc = "raised"
    /\ failure = "prefix"
    /\ address_family = "v6"
    /\ <<"v4", date>> \in commits
    /\ date \in storagedb.dates["v4"]
    /\ date \notin storagedb.dates["v6"]

\* the aggregate of one family and date as a reader finds it: the ASN set is
\* there, and so are the prefix set and the ipcount of each of its members
AggregatePresent(db, f, d) ==
    /\ db.asns[<<f, d>>] # {}
    /\ \A a \in db.asns[<<f, d>>] :
          /\ db.prefixes[<<f, d, a>>] # {}
          /\ db.ipcount[<<f, d, a>>] # None

\* C12: reader visibility.  In every state, also between the steps of a
\* running load, a date that is a member of a family's loaded-dates set has
\* its aggregate present; and right after a family's commit every ASN of
\* the committed map is in the ASN set with its prefixes and its ipcount
C12_ReaderVisibility ==
    /\ \A f \in Families : \A d \in storagedb.dates[f] :
          AggregatePresent(storagedb, f, d)
    /\ pc = "update_last" =>
          LET imp == to_import(routes[address_family])
          IN \A a \in DOMAIN imp :
                /\ a \in storagedb.asns[<<address_family, date>>]
                /\ imp[a].nets
                       \subseteq storagedb.prefixes[<<address_family, date, a>>]
                /\ storagedb.ipcount[<<address_family, date, a>>] = imp[a].ipcount

\* a reader looks at the store between the commit of a date's v4 aggregate
\* and the update of the v4 pointer, while v6 of that date is not written
C12_Witness ==
    /\ pc = "update_last"
    /\ address_family = "v4"
    /\ date \in storagedb.dates["v4"]
    /\ date \notin storagedb.dates["v6"]
    /\ storagedb.last["v4"] # date
    /\ AggregatePresent(storagedb, "v4", date)

\* C13: commit replaces prior values.  Right after the commit of a family
\* and date, for every ASN of the committed map the stored prefix set is
\* exactly that ASN's new prefix set and the stored ipcount is its new
\* ipcount, whatever the key held before
C13_CommitReplaces ==
    pc = "update_last" =>
        LET imp == to_import(routes[address_family])
        IN \A a \in DOMAIN imp :
              /\ storagedb.prefixes[<<address_family, date, a>>] = imp[a].nets
              /\ storagedb.ipcount[<<address_family, date, a>>] = imp[a].ipcount

\* the keys the store holds for one date, the last pointers left aside
DateKeys(db, d) ==
    [f \in Families |->
        [loaded   |-> d \in db.dates[f],
         asns     |-> db.asns[<<f, d>>],
         prefixes |-> [a \in ASNs |-> db.prefixes[<<f, d, a>>]],
         ipcount  |-> [a \in ASNs |-> db.ipcount[<<f, d, a>>]]]]

\* the date is committed for exactly one family
OneFamilyLoaded(db, d) ==
    (d \in db.dates["v4"]) # (d \in db.dates["v6"])

\* the keys of the date d are those a load of the routes leaves when it
\* commits v4 and stops before it commits v6
LeftByPartialLoadOf(db, rts, d) ==
    DateKeys(db, d)
        = DateKeys(commit(EmptyDb, "v4", d, to_import(rts["v4"])), d)

\* C14: partial loads are retried.  A candidate whose date is committed for
\* one family only is not skipped as loaded: unless a failure intervenes the
\* parser is called and the Load step runs for both families; and when the
\* Load step of a file completes on a date that the same file had left
\* partly loaded, the keys of the date are those one failure-free load of
\* the file into an empty store produces
C14_PartialRetried ==
    [][/\ (pc = "decide" /\ OneFamilyLoaded(storagedb, date)
            /\ ~too_old(oldest_to_load, date)) =>
           /\ pc' \in {"family", "raised", "idle"}
           /\ pc' = "family" =>
                 /\ fam_todo' = <<"v4", "v6">>
                 /\ parsed' = Append(parsed, path)
       /\ (pc = "update_last" /\ pc' = "iter"
            /\ LeftByPartialLoadOf(db_before, routes, date)) =>
           DateKeys(storagedb', date)
               = DateKeys(load_families(EmptyDb, routes, date,
                                        <<"v4", "v6">>, 1).db, date)]_vars

\* a pass has completed the Load step of a date that an earlier pass of the
\* same file had left committed for v4 only
C14_Witness ==
    /\ pc = "iter"
    /\ idx > 1
    /\ parsed # <<>>
    /\ LET p == parsed[Len(parsed)]
       IN /\ p = pass_paths[idx - 1]
          /\ OneFamilyLoaded(db_before, date_of(p))
          /\ LeftByPartialLoadOf(db_before, routes, date_of(p))
          /\ already_loaded(storagedb, date_of(p))

\* C15: skip-loaded.  For a candidate whose date is a member of the
\* loaded-dates sets of both families the decision of load_all leaves every
\* key of the store unchanged and calls no parser: the pass goes on to the
\* next candidate with the log of parsed paths as it was (or a storage
\* failure ends the pass)
C15_SkipLoaded ==
    [][(pc = "decide"
        /\ date \in storagedb.dates["v4"] /\ date \in storagedb.dates["v6"]) =>
           /\ storagedb' = storagedb
           /\ pc' \in {"iter", "idle"}
           /\ pc' = "iter" =>
                 /\ idx' = idx + 1
                 /\ parsed' = parsed
                 /\ routes' = routes]_vars

\* the first candidate of a pass was skipped, and not as too old, because
\* its date is loaded for both families: nothing was parsed
C15_Witness ==
    /\ pc = "iter"
    /\ idx = 2
    /\ parsed = <<>>
    /\ skipped = <<>>
    /\ date_of(pass_paths[1]) \in storagedb.dates["v4"]
    /\ date_of(pass_paths[1]) \in storagedb.dates["v6"]

\* C16: pointer only after the aggregate.  In every reachable state the
\* last pointer of a family is unset, or it is a date that is a member of
\* the family's loaded-dates set and whose aggregate is written
C16_PointerAfterAggregate ==
    \A f \in Families :
        \/ storagedb.last[f] = None
        \/ /\ storagedb.last[f] \in storagedb.dates[f]
           /\ AggregatePresent(storagedb, f, storagedb.last[f])

\* the v4 pointer was set to the date at hand after its v4 commit, and the
\* v6 family of the same file is still to be processed
C16_Witness ==
    /\ pc = "family"
    /\ address_family = "v6"
    /\ storagedb.last["v4"] = date
    /\ date \in storagedb.dates["v4"]
    /\ storagedb.last["v6"] # date

\* the dates of the paths of a list are strictly descending
DescendingDates(paths) ==
    \A i, j \in 1..Len(paths) : i < j => date_of(paths[i]) > date_of(paths[j])

GreatestDate(S) == CHOOSE d \in S : \A e \in S : e <= d

\* C18: at the start of every pass, whatever passes came before and however
\* they ended, the last pointer of each family is the greatest date of the
\* family's loaded-dates set, or unset when that set is empty
C18_PointerIsGreatestLoaded ==
    pc = "idle" =>
        \A f \in Families :
            storagedb.last[f] = IF storagedb.dates[f] = {} THEN None
                                ELSE GreatestDate(storagedb.dates[f])

\* the number of steps load_all has at most left in the running pass
StepsLeft ==
    IF pc \in {"idle", "returned", "raised"} THEN 0
    ELSE (Len(pass_paths) + 1 - idx) * 7
         + CASE pc = "iter" -> 6
             [] pc = "decide" -> 5
             [] pc = "family" -> 2 * Len(fam_todo)
             [] pc = "update_last" -> 2 * Len(fam_todo) - 1

\* the paths of a list, as a set
PathSet(paths) == {paths[i] : i \in 1..Len(paths)}

\* C19: resumable convergence.  Every step of a running pass brings its end
\* nearer, so the pass terminates; when it returns, which it does when no
\* parser or storage call has failed, every candidate that was not skipped
\* as older than the oldest date of interest is loaded for both families;
\* and a pass that follows at once over the same candidates, with the cache
\* value under which exactly those candidates are too old, calls no parser
\* and leaves the store as it is
C19_ResumableConvergence ==
    [][/\ pc \notin {"idle", "returned", "raised"} =>
            /\ StepsLeft' < StepsLeft
            /\ StepsLeft' >= 0
       /\ (pc # "returned" /\ pc' = "returned") =>
            /\ \A p \in PathSet(pass_paths') :
                  \/ p \in PathSet(skipped')
                  \/ /\ date_of(p) \in storagedb'.dates["v4"]
                     /\ date_of(p) \in storagedb'.dates["v6"]
            /\ \A first \in CacheValues :
                  PathSet(skipped')
                      = {p \in PathSet(pass_paths') : too_old(first, date_of(p))}
                  => run_pass(storagedb', disk', pass_paths', 1, first, <<>>)
                         = [db |-> storagedb', parsed |-> <<>>, raised |-> FALSE]
      ]_vars

\* a pass over two files has returned: it parsed and loaded the newer one and
\* skipped the older one as too old
C19_Witness ==
    /\ pc = "returned"
    /\ Len(pass_paths) = 2
    /\ parsed = <<pass_paths[1]>>
    /\ skipped = <<pass_paths[2]>>
    /\ already_loaded(storagedb, date_of(pass_paths[1]))
    /\ ~already_loaded(storagedb, date_of(pass_paths[2]))

\* C20: a file that decodes but has no resolved entry for one family still
\* gets its date recorded for that family: unless the storage is unavailable,
\* the processing of a family without entries ends in its commit, with the
\* date a member of the family's loaded-dates set
C20_EmptyFamilyRecorded ==
    [][(pc = "family" /\ routes[address_family] = <<>> /\ pc' # "idle") =>
           /\ pc' = "update_last"
           /\ date \in storagedb'.dates[address_family]]_vars

====
